---- MODULE Spec2Model ----
(***************************************************************************)
(* basic-http-server: the request-to-local-path resolution and response    *)
(* construction pipeline of src/main.rs and src/ext.rs.                    *)
(*                                                                         *)
(* Strings are sequences of tokens: a token is a maximal run of ordinary   *)
(* characters ("index", "srv"), one special character ("/", ".", "*") or   *)
(* one percent escape ("%2E").  Paths are therefore split, joined, decoded *)
(* and compared the way the code does it, never as opaque atoms.           *)
(***************************************************************************)
EXTENDS Integers, Sequences, FiniteSets, TLC

VARIABLES
    config,      \* the Config shared by every request
    templateOk,  \* whether template.html renders
    fs,          \* the filesystem
    pc,          \* where the request being served is
    req,         \* the request being served
    openPath,    \* the path respond_with_file has checked and will open
    primary,     \* the result of serve_file
    result,      \* the result of serve_or_error
    resp,        \* the response serve returned
    nresp,       \* responses returned for the request being served
    ran,         \* the stages that ran for the request being served
    other        \* a second request, served at the same time

vars == <<config, templateOk, fs, pc, req, openPath, primary, result, resp,
          nresp, ran, other>>

\* Option<T>
None == [some |-> FALSE]
Some(x) == [some |-> TRUE, v |-> x]

\* Bound on the symbolic links followed while resolving one path.
MaxSymlinks == 2

-----------------------------------------------------------------------------
(* String helpers *)

Last(s) == s[Len(s)]

EndsWith(s, t) == Len(s) > 0 /\ Last(s) = t

StartsWith(s, t) == Len(s) > 0 /\ s[1] = t

\* Index of the first occurrence of token t in s, 0 when absent.
RECURSIVE FindFrom(_, _, _)
FindFrom(s, t, i) ==
    IF i > Len(s) THEN 0
    ELSE IF s[i] = t THEN i
    ELSE FindFrom(s, t, i + 1)

Find(s, t) == FindFrom(s, t, 1)

\* Index of the last occurrence of token t in s, 0 when absent.
RECURSIVE RFindFrom(_, _, _)
RFindFrom(s, t, i) ==
    IF i = 0 THEN 0
    ELSE IF s[i] = t THEN i
    ELSE RFindFrom(s, t, i - 1)

RFind(s, t) == RFindFrom(s, t, Len(s))

\* Split s on every occurrence of sep; empty pieces are kept.
RECURSIVE SplitAcc(_, _, _, _, _)
SplitAcc(s, sep, i, cur, acc) ==
    IF i > Len(s) THEN Append(acc, cur)
    ELSE IF s[i] = sep THEN SplitAcc(s, sep, i + 1, <<>>, Append(acc, cur))
    ELSE SplitAcc(s, sep, i + 1, Append(cur, s[i]), acc)

Split(s, sep) == SplitAcc(s, sep, 1, <<>>, <<>>)

IsPrefix(p, s) == Len(p) <= Len(s) /\ SubSeq(s, 1, Len(p)) = p

-----------------------------------------------------------------------------
(* std::path::Path *)

Dot == <<".">>
DotDot == <<".", ".">>

\* Path::components for an absolute path: the names between separators,
\* empty names and "." dropped.
Components(path) ==
    SelectSeq(Split(path, "/"), LAMBDA c : c # <<>> /\ c # Dot)

\* Path::file_name: the last component unless it is "..".
file_name(path) ==
    LET cs == Components(path) IN
    IF cs = <<>> \/ Last(cs) = DotDot THEN None ELSE Some(Last(cs))

\* Path::extension: the part of file_name after its last ".", none when the
\* name has no "." or only a leading one.
extension(path) ==
    LET f == file_name(path) IN
    IF ~f.some THEN None
    ELSE LET i == RFind(f.v, ".") IN
         IF i <= 1 THEN None ELSE Some(SubSeq(f.v, i + 1, Len(f.v)))

\* PathBuf::push: an absolute argument replaces the path, any other is
\* appended after a separator.
push(path, p) ==
    IF StartsWith(p, "/") THEN p
    ELSE IF EndsWith(path, "/") THEN path \o p
    ELSE path \o <<"/">> \o p

\* Path::starts_with compares whole components.
starts_with(path, base) == IsPrefix(Components(base), Components(path))

\* The absolute path string of a list of components.
RECURSIVE JoinComponents(_)
JoinComponents(cs) ==
    IF cs = <<>> THEN <<>>
    ELSE <<"/">> \o Head(cs) \o JoinComponents(Tail(cs))

PathOf(cs) == IF cs = <<>> THEN <<"/">> ELSE JoinComponents(cs)

-----------------------------------------------------------------------------
(* The filesystem: a function from the component list of an entry to the   *)
(* entry.  Files carry their bytes and whether the bytes are UTF-8; links  *)
(* carry an absolute target path.                                          *)

Dir == [type |-> "dir"]
File(b, u) == [type |-> "file", bytes |-> b, utf8 |-> u]
Link(t) == [type |-> "link", target |-> t]

N_srv == <<"srv">>
N_etc == <<"etc">>
N_index == <<"index", ".", "html">>
N_atxt == <<"a", ".", "txt">>
N_notes == <<"notes", ".", "md">>
N_bad == <<"bad", ".", "md">>
N_docs == <<"docs">>
N_empty == <<"empty">>
N_license == <<"LICENSE">>
N_dmd == <<"d", ".", "md">>
N_link == <<"link">>
N_lpass == <<"lpass">>
N_lsecret == <<"ls", ".", "md">>
N_passwd == <<"passwd">>
N_secret == <<"secret", ".", "md">>
N_home == <<"home">>
N_alias == <<"alias">>
N_odd == <<"odd">>
N_bc == <<"b", ".", "c">>
N_makefile == <<"Makefile">>
N_sh == <<"sh">>
N_swap == <<"swap">>

\* File names with each character of the listing's encode set between an
\* x and a y ("U+0060" is the backtick).
OddNames == { <<"x", c, "y">> :
                c \in {" ", "\"", "<", ">", "U+0060", "#", "?", "{", "}"} }

\* A file name with a space and then the three characters %41.
N_pct == <<"x", " ", "%41">>

Fs0 ==
    ( <<>> :> Dir ) @@
    ( <<N_srv>> :> Dir ) @@
    ( <<N_srv, N_index>> :> File("root-index", TRUE) ) @@
    ( <<N_srv, N_atxt>> :> File("a-txt", TRUE) ) @@
    ( <<N_srv, N_notes>> :> File("notes-md", TRUE) ) @@
    ( <<N_srv, N_bad>> :> File("bad-md", FALSE) ) @@
    ( <<N_srv, N_docs>> :> Dir ) @@
    ( <<N_srv, N_docs, N_index>> :> File("docs-index", TRUE) ) @@
    ( <<N_srv, N_empty>> :> Dir ) @@
    ( <<N_srv, N_empty, N_license>> :> File("license", TRUE) ) @@
    ( <<N_srv, N_dmd>> :> Dir ) @@
    ( <<N_srv, N_link>> :> Link(<<"/", "etc">>) ) @@
    ( <<N_srv, N_lpass>> :> Link(<<"/", "etc", "/", "passwd">>) ) @@
    ( <<N_srv, N_lsecret>> :> Link(<<"/", "etc", "/", "secret", ".", "md">>) ) @@
    ( <<N_etc>> :> Dir ) @@
    ( <<N_etc, N_passwd>> :> File("passwd", TRUE) ) @@
    ( <<N_etc, N_secret>> :> File("secret-md", TRUE) ) @@
    ( <<N_home>> :> Dir ) @@
    ( <<N_home, N_index>> :> File("home-index", TRUE) ) @@
    ( <<N_alias>> :> Link(<<"/", "srv">>) ) @@
    ( <<N_srv, N_odd>> :> Dir ) @@
    ( <<N_srv, N_odd, N_bc>> :> File("b-c", TRUE) ) @@
    ( <<N_srv, N_odd, N_makefile>> :> File("makefile", TRUE) ) @@
    ( <<N_srv, N_odd, N_sh>> :> File("sh", TRUE) ) @@
    ( <<N_srv, N_odd, N_pct>> :> File("pct", TRUE) ) @@
    [ p \in { <<N_srv, N_odd, n>> : n \in OddNames } |->
        File("odd", TRUE) ] @@
    ( <<N_srv, N_swap>> :> Link(<<"/", "srv", "/", "a", ".", "txt">>) )

IoErr(k) == [ok |-> FALSE, io |-> k]

Parent(cs) == IF cs = <<>> THEN <<>> ELSE SubSeq(cs, 1, Len(cs) - 1)

\* Path resolution as the kernel does it: walk the components from the
\* root directory, step up on "..", follow links, fail on a missing entry
\* or on a name looked up in something that is not a directory.
RECURSIVE Walk(_, _, _, _)
Walk(f, cur, comps, fuel) ==
    IF comps = <<>> THEN [ok |-> TRUE, path |-> cur]
    ELSE IF f[cur].type # "dir" THEN IoErr("NotADirectory")
    ELSE LET c == Head(comps)
             rest == Tail(comps)
             p == Append(cur, c)
         IN  IF c = DotDot THEN Walk(f, Parent(cur), rest, fuel)
             ELSE IF p \notin DOMAIN f THEN IoErr("NotFound")
             ELSE IF f[p].type = "link"
                  THEN IF fuel = 0 THEN IoErr("FilesystemLoop")
                       ELSE Walk(f, <<>>, Components(f[p].target) \o rest,
                                 fuel - 1)
             ELSE Walk(f, p, rest, fuel)

\* Resolve a path string to the entry it names; a trailing separator
\* requires a directory.
Resolve(f, path) ==
    LET r == Walk(f, <<>>, Components(path), MaxSymlinks) IN
    IF r.ok /\ EndsWith(path, "/") /\ f[r.path].type # "dir"
    THEN IoErr("NotADirectory")
    ELSE r

\* Path::canonicalize
canonicalize(f, path) ==
    LET r == Resolve(f, path) IN
    IF r.ok THEN [ok |-> TRUE, path |-> PathOf(r.path)] ELSE r

\* Path::is_dir: false on any error.
is_dir(f, path) ==
    LET r == Resolve(f, path) IN r.ok /\ f[r.path].type = "dir"

-----------------------------------------------------------------------------
(* Results and errors (main.rs Error, ext.rs Error) *)

Ok(x) == [ok |-> TRUE, v |-> x]
Err(e) == [ok |-> FALSE, err |-> e]

E_Io(k) == [kind |-> "Io", io |-> k]
E_Ext(e) == [kind |-> "Ext", ext |-> e]
E_UriNotAbsolute == [kind |-> "UriNotAbsolute"]
E_UriNotUtf8 == [kind |-> "UriNotUtf8"]
E_EntityNotInRoot == [kind |-> "EntityNotInRoot"]
E_TemplateRender == [kind |-> "TemplateRender"]

X_Engine(e) == [kind |-> "Engine", engine |-> e]
X_Io(k) == [kind |-> "Io", io |-> k]
X_MarkdownUtf8 == [kind |-> "MarkdownUtf8"]
X_StripPrefixInDirList == [kind |-> "StripPrefixInDirList"]

\* derive(Display) of main.rs Error
Display(e) ==
    CASE e.kind = "Ext" -> "Extension error"
      [] e.kind = "Io" -> "I/O error"
      [] e.kind = "TemplateRender" -> "failed to render template"
      [] e.kind = "UriNotAbsolute" -> "requested URI is not an absolute path"
      [] e.kind = "UriNotUtf8" -> "requested URI is not UTF-8"
      [] e.kind = "EntityNotInRoot" ->
           "requested file or directory is not in the root directory"

-----------------------------------------------------------------------------
(* HTTP responses *)

OK == 200
FOUND == 302
UNAUTHORIZED == 401
FORBIDDEN == 403
NOT_FOUND == 404
METHOD_NOT_ALLOWED == 405
INTERNAL_SERVER_ERROR == 500

NoHeaders == [h \in {} |-> <<>>]

\* HeaderMap::insert / builder.header on a name set once
Header(name, value) == name :> value

TEXT_HTML == <<"text", "/", "html">>
TEXT_PLAIN == <<"text", "/", "plain">>

EmptyBody == [kind |-> "empty"]

Response(status, headers, body) ==
    [status |-> status, headers |-> headers, body |-> body]

\* render_html: the handlebars template applied to title and body.
render_html(tplOk, cfg) ==
    IF tplOk
    THEN Ok([kind |-> "page", title |-> cfg.title, body |-> cfg.body])
    ELSE Err(E_TemplateRender)

\* render_error_html
render_error_html(tplOk, status) ==
    render_html(tplOk, [title |-> [status |-> status], body |-> EmptyBody])

\* html_str_to_response_with_headers
html_str_to_response_with_headers(body, status, headers) ==
    Ok(Response(status,
                Header("content-type", TEXT_HTML) @@
                Header("content-length", [len |-> body]) @@ headers,
                body))

\* html_str_to_response
html_str_to_response(body, status) ==
    html_str_to_response_with_headers(body, status, NoHeaders)

\* make_error_response_from_code_and_headers
make_error_response_from_code_and_headers(tplOk, status, headers) ==
    LET body == render_error_html(tplOk, status) IN
    IF ~body.ok THEN body
    ELSE html_str_to_response_with_headers(body.v, status, headers)

\* make_error_response_from_code
make_error_response_from_code(tplOk, status) ==
    make_error_response_from_code_and_headers(tplOk, status, NoHeaders)

\* make_internal_server_error_response
make_internal_server_error_response(tplOk, err) ==
    make_error_response_from_code(tplOk, INTERNAL_SERVER_ERROR)

\* make_io_error_response without the case for NotFound.
make_io_error_response_all_500(tplOk, io) ==
    make_internal_server_error_response(tplOk, E_Io(io))

\* make_io_error_response
make_io_error_response(tplOk, io) ==
    IF io = "NotFound"
    THEN make_error_response_from_code(tplOk, NOT_FOUND)
    ELSE make_internal_server_error_response(tplOk, E_Io(io))

\* make_error_response
make_error_response(tplOk, e) ==
    IF e.kind = "Io" THEN make_io_error_response(tplOk, e.io)
    ELSE IF e.kind = "Ext" /\ e.ext.kind = "Io"
         THEN make_io_error_response(tplOk, e.ext.io)
    ELSE IF e.kind = "EntityNotInRoot"
         THEN make_error_response_from_code(tplOk, FORBIDDEN)
    ELSE make_internal_server_error_response(tplOk, e)

\* transform_error without the last-ditch response: a failure to build the
\* error page is handed on.
transform_error_propagating(tplOk, r) ==
    IF r.ok THEN r.v
    ELSE LET er == make_error_response(tplOk, r.err) IN
         IF er.ok THEN er.v ELSE er

\* transform_error
transform_error(tplOk, r) ==
    IF r.ok THEN r.v
    ELSE LET er == make_error_response(tplOk, r.err) IN
         IF er.ok THEN er.v
         ELSE Response(OK, NoHeaders,
                       [kind |-> "text",
                        text |-> <<"unexpected internal error: ",
                                   Display(er.err)>>])

-----------------------------------------------------------------------------
(* Requests *)

\* percent_decode_str: each escape becomes the byte it names; "0xFF" is a
\* byte that is not part of any UTF-8 text.
PctDecode ==
    ( "%2E" :> "." ) @@ ( "%2F" :> "/" ) @@ ( "%20" :> " " ) @@
    ( "%22" :> "\"" ) @@ ( "%23" :> "#" ) @@ ( "%3F" :> "?" ) @@
    ( "%3C" :> "<" ) @@ ( "%3E" :> ">" ) @@ ( "%60" :> "U+0060" ) @@
    ( "%7B" :> "{" ) @@ ( "%7D" :> "}" ) @@ ( "%41" :> "A" ) @@
    ( "%FF" :> "0xFF" )

percent_decode(s) ==
    [i \in 1..Len(s) |-> IF s[i] \in DOMAIN PctDecode THEN PctDecode[s[i]]
                         ELSE s[i]]

\* PercentDecode::decode_utf8
decode_utf8(bytes) ==
    IF \E i \in 1..Len(bytes) : bytes[i] = "0xFF" THEN None ELSE Some(bytes)

\* local_path_for_request
local_path_for_request(uri_path, root_dir) ==
    LET q == Find(uri_path, "?")
        end == IF q = 0 THEN Len(uri_path) ELSE q - 1
        request_path == SubSeq(uri_path, 1, end)
        decoded == decode_utf8(percent_decode(request_path))
    IN  IF ~decoded.some THEN Err(E_UriNotUtf8)
        ELSE IF StartsWith(decoded.v, "/")
             THEN Ok(push(root_dir, Tail(decoded.v)))
        ELSE Err(E_UriNotAbsolute)

\* local_path_with_maybe_index that never appends index.html.
local_path_with_maybe_index_no_index(f, uri_path, cfg) ==
    local_path_for_request(uri_path, cfg.root_dir)

\* local_path_with_maybe_index
local_path_with_maybe_index(f, uri_path, cfg) ==
    LET p == local_path_for_request(uri_path, cfg.root_dir) IN
    IF ~p.ok THEN p
    ELSE IF is_dir(f, p.v) THEN Ok(push(p.v, <<"index", ".", "html">>))
    ELSE p

\* check_in_root_dir with the arguments of starts_with exchanged.
check_in_root_dir_swapped(f, cfg, path) ==
    LET c == canonicalize(f, path) IN
    IF ~c.ok THEN Err(E_Io(c.io))
    ELSE IF cfg.allow_escape_root \/ starts_with(cfg.root_dir, c.path)
         THEN Ok(c.path)
    ELSE Err(E_EntityNotInRoot)

\* Config::check_in_root_dir
check_in_root_dir(f, cfg, path) ==
    LET c == canonicalize(f, path) IN
    IF ~c.ok THEN Err(E_Io(c.io))
    ELSE IF cfg.allow_escape_root \/ starts_with(c.path, cfg.root_dir)
         THEN Ok(c.path)
    ELSE Err(E_EntityNotInRoot)

\* try_dir_redirect that drops the query string.
try_dir_redirect_no_query(f, r, cfg) ==
    IF EndsWith(r.path, "/") THEN Ok(None)
    ELSE LET path == local_path_for_request(r.path, cfg.root_dir) IN
         IF ~path.ok THEN path
         ELSE IF ~is_dir(f, path.v) THEN Ok(None)
         ELSE Ok(Some(Response(FOUND, Header("location", r.path \o <<"/">>),
                               EmptyBody)))

\* try_dir_redirect
try_dir_redirect(f, r, cfg) ==
    IF EndsWith(r.path, "/") THEN Ok(None)
    ELSE LET path == local_path_for_request(r.path, cfg.root_dir) IN
         IF ~path.ok THEN path
         ELSE IF ~is_dir(f, path.v) THEN Ok(None)
         ELSE LET new_loc == r.path \o <<"/">> \o
                             (IF r.query.some THEN <<"?">> \o r.query.v
                              ELSE <<>>)
              IN  Ok(Some(Response(FOUND, Header("location", new_loc),
                                   EmptyBody)))

\* mime_guess's table, for the extensions of this filesystem.
MimeTable ==
    ( <<"html">> :> <<"text", "/", "html">> ) @@
    ( <<"txt">> :> <<"text", "/", "plain">> ) @@
    ( <<"md">> :> <<"text", "/", "markdown">> )

\* file_path_mime
file_path_mime(path) ==
    LET e == extension(path) IN
    IF e.some /\ e.v \in DOMAIN MimeTable THEN MimeTable[e.v]
    ELSE <<"application", "/", "octet-stream">>

\* What File::open followed by streaming yields: the bytes of the entry the
\* path names at the time of the open.
OpenFile(f, path) ==
    LET r == Resolve(f, path) IN
    IF ~r.ok THEN Err(E_Io(r.io))
    ELSE Ok([kind |-> "file", src |-> PathOf(r.path),
             bytes |-> IF f[r.path].type = "file" THEN f[r.path].bytes
                       ELSE "EISDIR"])

\* respond_with_file after the containment check: open, metadata, response.
respond_open(f, path) ==
    LET file == OpenFile(f, path) IN
    IF ~file.ok THEN file
    ELSE Ok(Response(OK,
                     Header("content-length", [len |-> file.v]) @@
                     Header("content-type", file_path_mime(path)),
                     file.v))

\* respond_with_file
respond_with_file(f, path, cfg) ==
    LET c == check_in_root_dir(f, cfg, path) IN
    IF ~c.ok THEN c ELSE respond_open(f, path)

-----------------------------------------------------------------------------
(* ext.rs *)

\* md_path_to_html
md_path_to_html(f, tplOk, path) ==
    LET r == Resolve(f, path) IN
    IF ~r.ok THEN Err(X_Io(r.io))
    ELSE IF f[r.path].type # "file" THEN Err(X_Io("IsADirectory"))
    ELSE IF ~f[r.path].utf8 THEN Err(X_MarkdownUtf8)
    ELSE LET html == render_html(tplOk,
                        [title |-> <<>>,
                         body |-> [kind |-> "markdown",
                                   src |-> PathOf(r.path),
                                   of |-> f[r.path].bytes]])
         IN  IF ~html.ok THEN Err(X_Engine(html.err))
             ELSE Ok(Response(OK,
                       Header("content-length", [len |-> html.v]) @@
                       Header("content-type", TEXT_HTML),
                       html.v))

TEXT_EXTENSIONS ==
    { <<"c">>, <<"cc">>, <<"cpp">>, <<"csv">>, <<"fst">>, <<"h">>,
      <<"java">>, <<"md">>, <<"mk">>, <<"proto">>, <<"py">>, <<"rb">>,
      <<"rs">>, <<"rst">>, <<"sh">>, <<"toml">>, <<"yml">> }

TEXT_FILES ==
    { <<".", "gitattributes">>, <<".", "gitignore">>, <<".", "mailmap">>,
      <<"AUTHORS">>, <<"CODE_OF_CONDUCT">>, <<"CONTRIBUTING">>,
      <<"COPYING">>, <<"COPYRIGHT">>, <<"Cargo", ".", "lock">>,
      <<"LICENSE">>, <<"LICENSE-APACHE">>, <<"LICENSE-MIT">>,
      <<"Makefile">>, <<"rust-toolchain">> }

\* maybe_convert_mime_type_to_text that builds the headers anew.
maybe_convert_mime_type_to_text_new_headers(r, rsp) ==
    LET fname == Last(Split(r.path, "/"))
        ext == Last(Split(fname, "."))
        do_convert == ext \in TEXT_EXTENSIONS \/ fname \in TEXT_FILES
    IN  IF do_convert
        THEN [rsp EXCEPT !.headers = Header("content-type", TEXT_PLAIN)]
        ELSE rsp

\* maybe_convert_mime_type_to_text
maybe_convert_mime_type_to_text(r, rsp) ==
    LET fname == Last(Split(r.path, "/"))
        ext == Last(Split(fname, "."))
        do_convert == ext \in TEXT_EXTENSIONS \/ fname \in TEXT_FILES
    IN  IF do_convert
        THEN [rsp EXCEPT !.headers =
                 Header("content-type", TEXT_PLAIN) @@ rsp.headers]
        ELSE rsp

\* The bytes of the tokens that occur in file names.
TokenBytes ==
    ( "srv" :> <<115, 114, 118>> ) @@
    ( "etc" :> <<101, 116, 99>> ) @@
    ( "index" :> <<105, 110, 100, 101, 120>> ) @@
    ( "." :> <<46>> ) @@
    ( "html" :> <<104, 116, 109, 108>> ) @@
    ( "a" :> <<97>> ) @@
    ( "txt" :> <<116, 120, 116>> ) @@
    ( "notes" :> <<110, 111, 116, 101, 115>> ) @@
    ( "md" :> <<109, 100>> ) @@
    ( "bad" :> <<98, 97, 100>> ) @@
    ( "docs" :> <<100, 111, 99, 115>> ) @@
    ( "empty" :> <<101, 109, 112, 116, 121>> ) @@
    ( "LICENSE" :> <<76, 73, 67, 69, 78, 83, 69>> ) @@
    ( "d" :> <<100>> ) @@
    ( "link" :> <<108, 105, 110, 107>> ) @@
    ( "lpass" :> <<108, 112, 97, 115, 115>> ) @@
    ( "ls" :> <<108, 115>> ) @@
    ( "passwd" :> <<112, 97, 115, 115, 119, 100>> ) @@
    ( "secret" :> <<115, 101, 99, 114, 101, 116>> ) @@
    ( "home" :> <<104, 111, 109, 101>> ) @@
    ( "alias" :> <<97, 108, 105, 97, 115>> ) @@
    ( "odd" :> <<111, 100, 100>> ) @@
    ( "b" :> <<98>> ) @@
    ( "c" :> <<99>> ) @@
    ( "Makefile" :> <<77, 97, 107, 101, 102, 105, 108, 101>> ) @@
    ( "sh" :> <<115, 104>> ) @@
    ( "swap" :> <<115, 119, 97, 112>> ) @@
    ( "x" :> <<120>> ) @@
    ( "y" :> <<121>> ) @@
    ( " " :> <<32>> ) @@
    ( "\"" :> <<34>> ) @@
    ( "<" :> <<60>> ) @@
    ( ">" :> <<62>> ) @@
    ( "U+0060" :> <<96>> ) @@
    ( "#" :> <<35>> ) @@
    ( "?" :> <<63>> ) @@
    ( "{" :> <<123>> ) @@
    ( "}" :> <<125>> ) @@
    ( "%41" :> <<37, 52, 49>> )

RECURSIVE NameBytes(_)
NameBytes(name) ==
    IF name = <<>> THEN <<>>
    ELSE TokenBytes[Head(name)] \o NameBytes(Tail(name))

\* Ord for byte strings: lexicographic.
RECURSIVE BytesLess(_, _)
BytesLess(a, b) ==
    IF b = <<>> THEN FALSE
    ELSE IF a = <<>> THEN TRUE
    ELSE IF Head(a) # Head(b) THEN Head(a) < Head(b)
    ELSE BytesLess(Tail(a), Tail(b))

\* Ord for the paths of one directory's entries: by file name.
PathLess(p, q) == BytesLess(NameBytes(Last(Components(p))),
                            NameBytes(Last(Components(q))))

\* The names in directory d (a component list).
Children(f, d) ==
    { p[Len(p)] : p \in { x \in DOMAIN f : Len(x) = Len(d) + 1 /\ IsPrefix(d, x) } }

\* A set as a sequence, in some order (read_dir gives no order).
RECURSIVE SetToSeq(_)
SetToSeq(S) ==
    IF S = {} THEN <<>>
    ELSE LET x == CHOOSE y \in S : TRUE IN <<x>> \o SetToSeq(S \ {x})

\* utf8_percent_encode with PATH_SET ("U+0060" is the backtick)
PctEncode ==
    ( " " :> "%20" ) @@ ( "\"" :> "%22" ) @@ ( "<" :> "%3C" ) @@
    ( ">" :> "%3E" ) @@ ( "U+0060" :> "%60" ) @@ ( "#" :> "%23" ) @@
    ( "?" :> "%3F" ) @@ ( "{" :> "%7B" ) @@ ( "}" :> "%7D" )

utf8_percent_encode(s) ==
    [i \in 1..Len(s) |-> IF s[i] \in DOMAIN PctEncode THEN PctEncode[s[i]]
                         ELSE s[i]]

\* Path::strip_prefix: the components after base, joined.
strip_prefix(path, base) ==
    IF ~starts_with(path, base) THEN None
    ELSE LET cs == Components(path)
             n == Len(Components(base))
             rest == JoinComponents(SubSeq(cs, n + 1, Len(cs)))
         IN  Some(IF rest = <<>> THEN <<>> ELSE Tail(rest))

\* One line of make_dir_list_body.
DirListEntry(root_dir, path) ==
    LET fname == file_name(path) IN
    [href |-> <<"/">> \o utf8_percent_encode(strip_prefix(path, root_dir).v),
     name |-> IF fname.some THEN fname.v ELSE DotDot]

\* make_dir_list_body
make_dir_list_body(tplOk, root_dir, paths, src) ==
    IF \E i \in 1..Len(paths) : ~strip_prefix(paths[i], root_dir).some
    THEN Err(X_StripPrefixInDirList)
    ELSE LET html == render_html(tplOk,
                        [title |-> <<>>,
                         body |-> [kind |-> "dirlist", src |-> src,
                                   entries |-> [i \in 1..Len(paths) |->
                                      DirListEntry(root_dir, paths[i])]]])
         IN  IF ~html.ok THEN Err(X_Engine(html.err)) ELSE html

\* list_dir that leaves the entries in the order read_dir gave them.
list_dir_unsorted(f, tplOk, root_dir, path) ==
    LET up_dir == push(path, DotDot)
        d == Resolve(f, path).path
        dents == SetToSeq({ push(path, n) : n \in Children(f, d) })
        paths == <<up_dir>> \o dents
        html == make_dir_list_body(tplOk, root_dir, paths, PathOf(d))
    IN  IF ~html.ok THEN html
        ELSE html_str_to_response(html.v, OK)

\* list_dir
list_dir(f, tplOk, root_dir, path) ==
    LET up_dir == push(path, DotDot)
        d == Resolve(f, path).path
        dents == SetToSeq({ push(path, n) : n \in Children(f, d) })
        paths == <<up_dir>> \o SortSeq(dents, PathLess)
        html == make_dir_list_body(tplOk, root_dir, paths, PathOf(d))
    IN  IF ~html.ok THEN html
        ELSE html_str_to_response(html.v, OK)

\* maybe_list_dir
maybe_list_dir(f, tplOk, root_dir, path) ==
    LET meta == Resolve(f, path) IN
    IF ~meta.ok THEN Err(X_Io(meta.io))
    ELSE IF f[meta.path].type = "dir"
         THEN LET l == list_dir(f, tplOk, root_dir, path) IN
              IF l.ok THEN Ok(Some(l.v)) ELSE l
    ELSE Ok(None)

\* ext::serve that renders markdown only when file serving succeeded.
ext_serve_md_on_success(f, tplOk, cfg, r, rsp) ==
    IF ~cfg.use_extensions THEN rsp
    ELSE LET path == local_path_for_request(r.path, cfg.root_dir) IN
    IF ~path.ok THEN path
    ELSE LET e == extension(path.v)
             file_ext == IF e.some THEN e.v ELSE <<>>
    IN  IF rsp.ok
        THEN IF file_ext = <<"md">>
             THEN LET m == md_path_to_html(f, tplOk, path.v) IN
                  IF m.ok THEN m ELSE Err(E_Ext(m.err))
             ELSE Ok(maybe_convert_mime_type_to_text(r, rsp.v))
        ELSE IF rsp.err.kind = "Io" /\ rsp.err.io = "NotFound"
             THEN LET l == maybe_list_dir(f, tplOk, cfg.root_dir, path.v) IN
                  IF ~l.ok THEN Err(E_Ext(l.err))
                  ELSE IF l.v.some THEN Ok(l.v.v)
                  ELSE rsp
        ELSE rsp

\* ext::serve
ext_serve(f, tplOk, cfg, r, rsp) ==
    IF ~cfg.use_extensions THEN rsp
    ELSE LET path == local_path_for_request(r.path, cfg.root_dir) IN
    IF ~path.ok THEN path
    ELSE LET e == extension(path.v)
             file_ext == IF e.some THEN e.v ELSE <<>>
    IN  IF file_ext = <<"md">>
        THEN LET m == md_path_to_html(f, tplOk, path.v) IN
             IF m.ok THEN m ELSE Err(E_Ext(m.err))
        ELSE IF rsp.ok THEN Ok(maybe_convert_mime_type_to_text(r, rsp.v))
        ELSE IF rsp.err.kind = "Io" /\ rsp.err.io = "NotFound"
             THEN LET l == maybe_list_dir(f, tplOk, cfg.root_dir, path.v) IN
                  IF ~l.ok THEN Err(E_Ext(l.err))
                  ELSE IF l.v.some THEN Ok(l.v.v)
                  ELSE rsp
        ELSE rsp

-----------------------------------------------------------------------------
(* Basic auth *)

\* impl FromStr for Auth: split at the first ':'.
Auth_from_str(s) ==
    LET i == Find(s, ":") IN
    IF i = 0 THEN [username |-> s, password |-> <<>>]
    ELSE [username |-> SubSeq(s, 1, i - 1),
          password |-> SubSeq(s, i + 1, Len(s))]

LowerTable ==
    ( "B" :> "b" ) @@ ( "A" :> "a" ) @@ ( "S" :> "s" ) @@ ( "I" :> "i" ) @@
    ( "C" :> "c" ) @@ ( "E" :> "e" ) @@ ( "R" :> "r" )

\* str::eq_ignore_ascii_case
eq_ignore_ascii_case(a, b) ==
    LET lower(s) == [i \in 1..Len(s) |->
                        IF s[i] \in DOMAIN LowerTable THEN LowerTable[s[i]]
                        ELSE s[i]]
    IN  lower(a) = lower(b)

\* str::trim
RECURSIVE TrimStart(_)
TrimStart(s) == IF s # <<>> /\ Head(s) = " " THEN TrimStart(Tail(s)) ELSE s

RECURSIVE TrimEnd(_)
TrimEnd(s) ==
    IF s # <<>> /\ Last(s) = " " THEN TrimEnd(SubSeq(s, 1, Len(s) - 1)) ELSE s

trim(s) == TrimEnd(TrimStart(s))

\* The base64 texts of this model and the bytes they encode.
Base64Table ==
    ( "dXNlcjpwYXNz" :> <<"user", ":", "pass">> ) @@
    ( "dXNlcjp3cm9uZw==" :> <<"user", ":", "wrong">> ) @@
    ( "dXNlcg==" :> <<"user">> ) @@
    ( "/w==" :> <<"0xFF">> )

\* base64::decode
base64_decode(s) ==
    IF s = <<>> THEN Some(<<>>)
    ELSE IF Len(s) = 1 /\ s[1] \in DOMAIN Base64Table
         THEN Some(Base64Table[s[1]])
    ELSE None

\* HeaderValue::to_str and str::from_utf8 fail on a byte outside the text.
IsText(s) == \A i \in 1..Len(s) : s[i] # "0xFF"

\* Config::check_auth
check_auth(cfg, r) ==
    IF ~cfg.auth.some THEN TRUE
    ELSE IF ~r.authorization.some THEN FALSE
    ELSE LET auth_header == r.authorization.v IN
    IF ~IsText(auth_header) THEN FALSE
    ELSE IF ~(Len(auth_header) >= 6 /\
              eq_ignore_ascii_case(SubSeq(auth_header, 1, 6),
                                   <<"b", "a", "s", "i", "c", " ">>))
         THEN FALSE
    ELSE LET auth == base64_decode(trim(SubSeq(auth_header, 7,
                                               Len(auth_header)))) IN
    IF ~auth.some THEN FALSE
    ELSE IF ~IsText(auth.v) THEN FALSE
    ELSE cfg.auth.v = Auth_from_str(auth.v)

\* The WWW-Authenticate value of serve_or_error.
AuthChallenge ==
    <<"Basic", " ", "relm", "=", "\"", "User Visible Realm", "\"", ",", " ",
      "charset", "=", "\"", "UTF-8", "\"">>

\* get_unsupported_request_message that lets HEAD through.
get_unsupported_request_message_head(r) ==
    IF r.method \notin {"GET", "HEAD"}
    THEN Some([code |-> METHOD_NOT_ALLOWED,
               headers |-> Header("allow", <<"GET">>)])
    ELSE None

\* get_unsupported_request_message
get_unsupported_request_message(r) ==
    IF r.method # "GET"
    THEN Some([code |-> METHOD_NOT_ALLOWED,
               headers |-> Header("allow", <<"GET">>)])
    ELSE None

\* handle_unsupported_request
handle_unsupported_request(tplOk, r) ==
    LET unsup == get_unsupported_request_message(r) IN
    IF unsup.some
    THEN Some(make_error_response_from_code_and_headers(
                  tplOk, unsup.v.code, unsup.v.headers))
    ELSE None

-----------------------------------------------------------------------------
(* Configurations and requests *)

\* Config::canonical_root_dir
canonical_root_dir(f, cfg) ==
    [cfg EXCEPT !.root_dir = canonicalize(f, cfg.root_dir).path]

\* The command lines: ROOT, -x, --allow-escape-root, --auth.
CliConfigs ==
    [root_dir : { <<"/", "srv">>, <<"/", "srv", "/", "docs", "/", ".", ".">> },
     use_extensions : BOOLEAN,
     allow_escape_root : BOOLEAN,
     auth : {None, Some(Auth_from_str(<<"user", ":", "pass">>))}]

UriPaths ==
    { <<"/">>,
      <<"/", "index", ".", "html">>,
      <<"/", "a", ".", "txt">>,
      <<"/", "a", ".", "txt", "/">>,
      <<"/", "notes", ".", "md">>,
      <<"/", "bad", ".", "md">>,
      <<"/", "docs">>,
      <<"/", "docs", "/">>,
      <<"/", "docs", "/", "index", ".", "html">>,
      <<"/", "docs", "/", ".", ".", "/", "a", ".", "txt">>,
      <<"/", "empty">>,
      <<"/", "empty", "/">>,
      <<"/", "empty", "/", "LICENSE">>,
      <<"/", "d", ".", "md">>,
      <<"/", "d", ".", "md", "/">>,
      <<"/", "missing">>,
      <<"/", "missing", "/">>,
      <<"/", "missing", ".", "md">>,
      <<"/", "link">>,
      <<"/", "link", "/">>,
      <<"/", "link", "/", "passwd">>,
      <<"/", "link", "/", "secret", ".", "md">>,
      <<"/", "lpass">>,
      <<"/", "ls", ".", "md">>,
      <<"/", ".", ".">>,
      <<"/", ".", ".", "/">>,
      <<"/", ".", ".", "/", "etc", "/", "passwd">>,
      <<"/", ".", ".", "/", "etc", "/", "secret", ".", "md">>,
      <<"/", ".", ".", "/", "home", "/">>,
      <<"/", ".", ".", "/", "nope">>,
      <<"/", "%2E", "%2E", "/", "etc", "/", "passwd">>,
      <<"/", "/", "etc", "/", "passwd">>,
      <<"/", "/", "etc">>,
      <<"/", "/", "etc", "/">>,
      <<"/", "/", "alias", "/", "a", ".", "txt">>,
      <<"/", "/", "alias", "/", "empty", "/">>,
      <<"/", "odd">>,
      <<"/", "odd", "/">>,
      <<"/", "odd", "/", "b", ".", "c">>,
      <<"/", "odd", "/", "Makefile">>,
      <<"/", "odd", "/", "sh">>,
      <<"/", "odd", "/", "x", "%20", "y">>,
      <<"/", "odd", "/", "x", "%20", "%41">>,
      <<"/", "swap">>,
      <<"/", "%FF">>,
      <<"*">> }

Queries == { None, Some(<<"q", "=", "1">>) }

GoodAuth == Some(<<"B", "a", "s", "i", "c", " ", "dXNlcjpwYXNz">>)

Authorizations ==
    { None,
      GoodAuth,
      Some(<<"b", "a", "s", "i", "c", " ", "dXNlcjpwYXNz">>),
      Some(<<"B", "a", "s", "i", "c", " ", " ", "dXNlcjpwYXNz", " ">>),
      Some(<<"B", "a", "s", "i", "c", " ", "dXNlcjp3cm9uZw==">>),
      Some(<<"B", "a", "s", "i", "c", " ", "dXNlcg==">>),
      Some(<<"B", "a", "s", "i", "c", " ", "/w==">>),
      Some(<<"B", "a", "s", "i", "c", " ", "!!">>),
      Some(<<"B", "a", "s", "i", "c", " ">>),
      Some(<<"B", "a", "s", "i", "c">>),
      Some(<<"B", "e", "a", "r", "e", "r", " ", "dXNlcjpwYXNz">>),
      Some(<<"B", "a", "s", "i", "c", " ", "dXNlcjpwYXNz", "0xFF">>) }

Request(m, p, q, a) ==
    [method |-> m, path |-> p, query |-> q, authorization |-> a]

\* Every path is requested with and without credentials; the other
\* methods, headers and query strings on a few paths.
Requests ==
    { Request("GET", p, None, a) : p \in UriPaths, a \in {None, GoodAuth} }
    \cup
    { Request(m, p, q, a) :
        m \in {"GET", "POST", "HEAD"},
        p \in { <<"/">>, <<"/", "docs">>, <<"/", "a", ".", "txt">>,
                <<"/", ".", ".">> },
        q \in Queries,
        a \in Authorizations }

\* serve_file
serve_file(f, r, cfg) ==
    LET redir == try_dir_redirect(f, r, cfg) IN
    IF ~redir.ok THEN redir
    ELSE IF redir.v.some THEN Ok(redir.v.v)
    ELSE LET path == local_path_with_maybe_index(f, r.path, cfg) IN
         IF ~path.ok THEN path
         ELSE respond_with_file(f, path.v, cfg)

\* serve_or_error
serve_or_error(f, tplOk, cfg, r) ==
    LET unsup == handle_unsupported_request(tplOk, r) IN
    IF unsup.some THEN unsup.v
    ELSE IF ~check_auth(cfg, r)
         THEN make_error_response_from_code_and_headers(
                  tplOk, UNAUTHORIZED, Header("www-authenticate", AuthChallenge))
    ELSE ext_serve(f, tplOk, cfg, r, serve_file(f, r, cfg))

\* serve
serve(f, tplOk, cfg, r) == transform_error(tplOk, serve_or_error(f, tplOk, cfg, r))

\* The future of a request that hyper has not yet handed to serve.
IdleHandler ==
    [pc |-> "idle", req |-> None, openPath |-> None, primary |-> None,
     result |-> None, resp |-> None]

\* The requests sent while another one is being served.
OtherRequests ==
    { Request("GET", <<"/", "a", ".", "txt">>, None, None),
      Request("GET", <<"/", "odd", "/">>, None, None),
      Request("GET", <<"/", "missing">>, None, GoodAuth),
      Request("POST", <<"/">>, None, None) }

\* One poll of the future of serve: from one await to the next.
HandlerStep(f, tplOk, cfg, h) ==
    CASE h.pc = "recv" ->
           LET r == h.req.v
               unsup == handle_unsupported_request(tplOk, r)
               redir == try_dir_redirect(f, r, cfg)
               path == local_path_with_maybe_index(f, r.path, cfg)
               checked == check_in_root_dir(f, cfg, path.v)
           IN  IF unsup.some
               THEN [h EXCEPT !.result = unsup.v, !.pc = "transform"]
               ELSE IF ~check_auth(cfg, r)
               THEN [h EXCEPT !.result =
                        make_error_response_from_code_and_headers(
                            tplOk, UNAUTHORIZED,
                            Header("www-authenticate", AuthChallenge)),
                      !.pc = "transform"]
               ELSE IF ~redir.ok
               THEN [h EXCEPT !.primary = redir, !.pc = "ext"]
               ELSE IF redir.v.some
               THEN [h EXCEPT !.primary = Ok(redir.v.v), !.pc = "ext"]
               ELSE IF ~path.ok
               THEN [h EXCEPT !.primary = path, !.pc = "ext"]
               ELSE IF ~checked.ok
               THEN [h EXCEPT !.primary = checked, !.pc = "ext"]
               ELSE [h EXCEPT !.openPath = Some(path.v), !.pc = "open"]
      [] h.pc = "open" ->
           [h EXCEPT !.primary = respond_open(f, h.openPath.v), !.pc = "ext"]
      [] h.pc = "ext" ->
           [h EXCEPT !.result = ext_serve(f, tplOk, cfg, h.req.v, h.primary),
                     !.pc = "transform"]
      [] h.pc = "transform" ->
           [h EXCEPT !.resp = Some(transform_error(tplOk, h.result)),
                     !.pc = "done"]
      [] h.pc = "done" -> IdleHandler

-----------------------------------------------------------------------------
(* The server *)

Init ==
    /\ fs = Fs0
    /\ config \in { canonical_root_dir(Fs0, c) : c \in CliConfigs }
    /\ templateOk = TRUE
    /\ pc = "idle"
    /\ req = None
    /\ openPath = None
    /\ primary = None
    /\ result = None
    /\ resp = None
    /\ nresp = 0
    /\ ran = <<>>
    /\ other = IdleHandler

\* hyper hands a request to serve.
Receive ==
    /\ pc = "idle"
    /\ \E r \in Requests : req' = Some(r)
    /\ pc' = "recv"
    /\ UNCHANGED other
    /\ UNCHANGED <<config, templateOk, fs, openPath, primary, result, resp,
                   nresp, ran>>

\* serve_or_error: a method other than GET.
Unsupported ==
    /\ pc = "recv"
    /\ handle_unsupported_request(templateOk, req.v).some
    /\ result' = handle_unsupported_request(templateOk, req.v).v
    /\ pc' = "transform"
    /\ ran' = Append(ran, "unsupported")
    /\ UNCHANGED other
    /\ UNCHANGED <<config, templateOk, fs, req, openPath, primary, resp,
                   nresp>>

\* serve_or_error that looks the path up before it checks the credentials.
Unauthorized_after_lookup ==
    /\ pc = "recv"
    /\ ~handle_unsupported_request(templateOk, req.v).some
    /\ ~check_auth(config, req.v)
    /\ LET path == local_path_for_request(req.v.path, config.root_dir) IN
       result' = IF ~path.ok THEN path
                 ELSE IF ~Resolve(fs, path.v).ok
                      THEN Err(E_Io(Resolve(fs, path.v).io))
                 ELSE make_error_response_from_code_and_headers(
                          templateOk, UNAUTHORIZED,
                          Header("www-authenticate", AuthChallenge))
    /\ pc' = "transform"
    /\ ran' = Append(ran, "unauthorized")
    /\ UNCHANGED other
    /\ UNCHANGED <<config, templateOk, fs, req, openPath, primary, resp,
                   nresp>>

\* serve_or_error: the credentials are missing or wrong.
Unauthorized ==
    /\ pc = "recv"
    /\ ~handle_unsupported_request(templateOk, req.v).some
    /\ ~check_auth(config, req.v)
    /\ result' = make_error_response_from_code_and_headers(
                     templateOk, UNAUTHORIZED,
                     Header("www-authenticate", AuthChallenge))
    /\ pc' = "transform"
    /\ ran' = Append(ran, "unauthorized")
    /\ UNCHANGED other
    /\ UNCHANGED <<config, templateOk, fs, req, openPath, primary, resp,
                   nresp>>

\* serve_file that pushes the request path onto the root_dir of the shared
\* Config instead of a copy of it.
ServeFile_push_in_place ==
    /\ pc = "recv"
    /\ ~handle_unsupported_request(templateOk, req.v).some
    /\ check_auth(config, req.v)
    /\ LET redir == try_dir_redirect(fs, req.v, config)
           path == local_path_with_maybe_index(fs, req.v.path, config)
           checked == check_in_root_dir(fs, config, path.v)
       IN  /\ IF ~redir.ok
              THEN primary' = redir /\ pc' = "ext" /\ openPath' = openPath
              ELSE IF redir.v.some
              THEN primary' = Ok(redir.v.v) /\ pc' = "ext"
                   /\ openPath' = openPath
              ELSE IF ~path.ok
              THEN primary' = path /\ pc' = "ext" /\ openPath' = openPath
              ELSE IF ~checked.ok
              THEN primary' = checked /\ pc' = "ext" /\ openPath' = openPath
              ELSE primary' = primary /\ pc' = "open"
                   /\ openPath' = Some(path.v)
           /\ config' = IF path.ok THEN [config EXCEPT !.root_dir = path.v]
                        ELSE config
    /\ ran' = Append(ran, "serve_file")
    /\ UNCHANGED <<other, templateOk, fs, req, result, resp, nresp>>

\* serve_file up to the containment check of respond_with_file.
ServeFile ==
    /\ pc = "recv"
    /\ ~handle_unsupported_request(templateOk, req.v).some
    /\ check_auth(config, req.v)
    /\ LET redir == try_dir_redirect(fs, req.v, config)
           path == local_path_with_maybe_index(fs, req.v.path, config)
           checked == check_in_root_dir(fs, config, path.v)
       IN  IF ~redir.ok
           THEN primary' = redir /\ pc' = "ext" /\ openPath' = openPath
           ELSE IF redir.v.some
           THEN primary' = Ok(redir.v.v) /\ pc' = "ext" /\ openPath' = openPath
           ELSE IF ~path.ok
           THEN primary' = path /\ pc' = "ext" /\ openPath' = openPath
           ELSE IF ~checked.ok
           THEN primary' = checked /\ pc' = "ext" /\ openPath' = openPath
           ELSE primary' = primary /\ pc' = "open" /\ openPath' = Some(path.v)
    /\ ran' = Append(ran, "serve_file")
    /\ UNCHANGED other
    /\ UNCHANGED <<config, templateOk, fs, req, result, resp, nresp>>

\* respond_with_file from File::open on.
OpenAndRespond ==
    /\ pc = "open"
    /\ primary' = respond_open(fs, openPath.v)
    /\ pc' = "ext"
    /\ ran' = Append(ran, "open")
    /\ UNCHANGED other
    /\ UNCHANGED <<config, templateOk, fs, req, openPath, result, resp, nresp>>

\* serve_or_error: the developer extensions post-process the result.
Extensions ==
    /\ pc = "ext"
    /\ result' = ext_serve(fs, templateOk, config, req.v, primary)
    /\ pc' = "transform"
    /\ ran' = Append(ran, "ext")
    /\ UNCHANGED other
    /\ UNCHANGED <<config, templateOk, fs, req, openPath, primary, resp,
                   nresp>>

\* serve: errors become error responses and the response is returned.
TransformError ==
    /\ pc = "transform"
    /\ resp' = Some(transform_error(templateOk, result))
    /\ nresp' = nresp + 1
    /\ pc' = "done"
    /\ ran' = Append(ran, "transform")
    /\ UNCHANGED other
    /\ UNCHANGED <<config, templateOk, fs, req, openPath, primary, result>>

\* hyper has written the response; the connection takes the next request.
Finish ==
    /\ pc = "done"
    /\ pc' = "idle"
    /\ req' = None
    /\ openPath' = None
    /\ primary' = None
    /\ result' = None
    /\ resp' = None
    /\ nresp' = 0
    /\ ran' = <<>>
    /\ UNCHANGED other
    /\ UNCHANGED <<config, templateOk, fs>>

Next ==
    \/ Receive
    \/ Unsupported
    \/ Unauthorized
    \/ ServeFile
    \/ OpenAndRespond
    \/ Extensions
    \/ TransformError
    \/ Finish

Spec == Init /\ [][Next]_vars

\* hyper hands a second request to serve while the first is in flight or
\* not.
OtherReceive ==
    /\ other.pc = "idle"
    /\ \E r \in OtherRequests :
           other' = [other EXCEPT !.req = Some(r), !.pc = "recv"]
    /\ UNCHANGED <<config, templateOk, fs, pc, req, openPath, primary, result,
                   resp, nresp, ran>>

\* The runtime polls the future of the second request.
OtherStep ==
    /\ other.pc # "idle"
    /\ other' = HandlerStep(fs, templateOk, config, other)
    /\ UNCHANGED <<config, templateOk, fs, pc, req, openPath, primary, result,
                   resp, nresp, ran>>

NextConcurrent ==
    \/ Next
    \/ OtherReceive
    \/ OtherStep

\* Two requests served at the same time.
SpecConcurrent == Init /\ [][NextConcurrent]_vars

\* Another process makes the symbolic link /srv/swap, which led to
\* /srv/a.txt, lead to /etc/passwd.
Retarget ==
    /\ fs[<<N_srv, N_swap>>] = Link(<<"/", "srv", "/", "a", ".", "txt">>)
    /\ fs' = [fs EXCEPT ![<<N_srv, N_swap>>] =
                  Link(<<"/", "etc", "/", "passwd">>)]
    /\ UNCHANGED <<config, templateOk, pc, req, openPath, primary, result,
                   resp, nresp, ran, other>>

NextRace ==
    \/ Next
    \/ Retarget

\* The server next to a process that changes the filesystem.
SpecRace == Init /\ [][NextRace]_vars

-----------------------------------------------------------------------------
(* What the properties speak about *)

\* The request has been answered.
Done == pc = "done"

\* The request reached file serving: its method is GET and check_auth
\* passed.
Served == Done /\ Len(ran) > 0 /\ ran[1] = "serve_file"

\* The local path of the request, when the URI maps to one.
LocalPath == local_path_for_request(req.v.path, config.root_dir)

\* Where a path leads, whether or not its target exists: links are
\* followed and ".." steps up as far as entries exist, the rest is taken
\* by name.
RECURSIVE Leads(_, _, _, _)
Leads(f, cur, comps, fuel) ==
    IF comps = <<>> THEN cur
    ELSE LET c == Head(comps)
             rest == Tail(comps)
             p == Append(cur, c)
         IN  IF c = DotDot THEN Leads(f, Parent(cur), rest, fuel)
             ELSE IF p \in DOMAIN f /\ f[p].type = "link" /\ fuel > 0
                  THEN Leads(f, <<>>, Components(f[p].target) \o rest,
                             fuel - 1)
             ELSE Leads(f, p, rest, fuel)

\* The path leads outside root_dir.
Outside(path) ==
    ~IsPrefix(Components(config.root_dir),
              Leads(fs, <<>>, Components(path), MaxSymlinks))

\* The entry a path names, when it names one.
Entry(path) == fs[Resolve(fs, path).path]

\* The path names an existing regular file inside root_dir.
NamesFileInRoot(path) ==
    /\ Resolve(fs, path).ok
    /\ Entry(path).type = "file"
    /\ ~Outside(path)

\* The path names an existing directory.
NamesDir(path) == Resolve(fs, path).ok /\ Entry(path).type = "dir"

\* The extension of the local path is md and the extensions are on.
MarkdownApplies ==
    /\ config.use_extensions
    /\ LocalPath.ok
    /\ extension(LocalPath.v) = Some(<<"md">>)

\* The file or directory a response body was read from, when it has one.
BodySource(body) ==
    IF body.kind = "file" THEN Some(body.src)
    ELSE IF body.kind = "page" /\ body.body.kind \in {"markdown", "dirlist"}
         THEN Some(body.body.src)
    ELSE None

-----------------------------------------------------------------------------
(* C1 *)

\* C1: with allow_escape_root false, every GET request that reaches file
\* serving and whose resolved path lies outside root_dir (through "..", an
\* absolute remainder or a link) is answered 403, whether or not the target
\* exists, file or directory, with or without a trailing slash.
C1_OutsideRootIsForbidden ==
    (Served /\ ~config.allow_escape_root /\ LocalPath.ok
       /\ Outside(LocalPath.v))
    => resp.v.status = FORBIDDEN

-----------------------------------------------------------------------------
(* C2 *)

\* C2: with allow_escape_root false, no 200 response carries content (file
\* bytes, rendered markdown or a directory listing) read from a file or
\* directory whose canonical path is outside root_dir.
C2_NoContentFromOutsideRoot ==
    (Done /\ ~config.allow_escape_root /\ resp.v.status = OK
       /\ BodySource(resp.v.body).some)
    => starts_with(BodySource(resp.v.body).v, config.root_dir)

-----------------------------------------------------------------------------
(* C3 *)

\* The 200 response whose body is the bytes of the file the path names.
IsFileResponse(path) ==
    /\ resp.v.status = OK
    /\ resp.v.body.kind = "file"
    /\ resp.v.body.bytes = Entry(path).bytes

\* C3 as stated: every GET request path under root_dir that names an
\* existing regular file is answered 200 with the file's bytes as body.
C3_FileServedAlways ==
    (Served /\ LocalPath.ok /\ NamesFileInRoot(LocalPath.v))
    => IsFileResponse(LocalPath.v)

\* C3 amended: every GET request that reaches file serving and whose path
\* names an existing regular file inside root_dir is answered 200 with the
\* file's bytes as body, unless the extensions are on and the path's
\* extension is md.
C3_FileServed ==
    (Served /\ LocalPath.ok /\ NamesFileInRoot(LocalPath.v)
       /\ ~MarkdownApplies)
    => IsFileResponse(LocalPath.v)

\* A file with a text extension is served with the extensions on.
C3_Witness ==
    /\ Served
    /\ config.use_extensions
    /\ req.v.path = <<"/", "empty", "/", "LICENSE">>
    /\ NamesFileInRoot(LocalPath.v)
    /\ resp.v.status = OK

-----------------------------------------------------------------------------
(* C4 *)

\* The 302 response that sends the request path plus "/" plus the query.
IsRedirectToSlash ==
    /\ resp.v.status = FOUND
    /\ "location" \in DOMAIN resp.v.headers
    /\ resp.v.headers["location"] =
         req.v.path \o <<"/">> \o
         (IF req.v.query.some THEN <<"?">> \o req.v.query.v ELSE <<>>)

\* The request path has no trailing slash and names a directory.
WantsRedirect ==
    /\ ~EndsWith(req.v.path, "/")
    /\ LocalPath.ok
    /\ NamesDir(LocalPath.v)

\* C4 as stated: every GET request whose path does not end in "/" and
\* names a directory is answered 302 with Location = path + "/" + query;
\* every other request is not redirected.
C4_RedirectAlways ==
    Served => /\ WantsRedirect => IsRedirectToSlash
              /\ ~WantsRedirect => resp.v.status # FOUND

\* C4 amended: as stated, unless the extensions are on and the path's
\* extension is md (markdown rendering then replaces the redirect).
C4_Redirect ==
    Served => /\ (WantsRedirect /\ ~MarkdownApplies) => IsRedirectToSlash
              /\ ~WantsRedirect => resp.v.status # FOUND

\* A directory requested without the slash and with a query string is
\* redirected.
C4_Witness ==
    /\ Served
    /\ WantsRedirect
    /\ req.v.query.some
    /\ resp.v.status = FOUND

-----------------------------------------------------------------------------
(* C5 *)

\* The request path ends in "/" and names a directory.
IsDirRequest ==
    /\ EndsWith(req.v.path, "/")
    /\ LocalPath.ok
    /\ NamesDir(LocalPath.v)

IndexPath == push(LocalPath.v, <<"index", ".", "html">>)

\* index.html exists in the directory the request names.
HasIndex == Resolve(fs, IndexPath).ok

\* C5 as stated, read for the directories inside root_dir: a GET request
\* for a directory with the trailing slash is answered 200 with the bytes of
\* its index.html when that file exists and 404 when it does not (Config
\* has no single-page-app mode).
C5_IndexOr404Always ==
    (Served /\ IsDirRequest /\ ~Outside(LocalPath.v))
    => IF HasIndex THEN IsFileResponse(IndexPath)
       ELSE resp.v.status = NOT_FOUND

\* The local path starts with root_dir as written, so that the directory
\* listing can make its links.
ListingLinksOk == strip_prefix(LocalPath.v, config.root_dir).some

\* C5 amended: a GET request that reaches file serving for a directory
\* inside root_dir, with the trailing slash, and not taken over by markdown
\* rendering: when index.html is a regular file inside root_dir the
\* response is 200 with its bytes; when there is no index.html the
\* response is 404 with the extensions off, and with the extensions on it
\* is the directory listing (200, or 500 when the local path does not
\* start with root_dir as written).
C5_IndexOrListing ==
    (Served /\ IsDirRequest /\ ~Outside(LocalPath.v) /\ ~MarkdownApplies)
    => IF HasIndex
       THEN NamesFileInRoot(IndexPath) => IsFileResponse(IndexPath)
       ELSE IF ~config.use_extensions THEN resp.v.status = NOT_FOUND
       ELSE IF ListingLinksOk
            THEN /\ resp.v.status = OK
                 /\ resp.v.body.kind = "page"
                 /\ resp.v.body.body.kind = "dirlist"
            ELSE resp.v.status = INTERNAL_SERVER_ERROR

\* A directory with index.html is requested with the slash.
C5_Witness ==
    /\ Served
    /\ IsDirRequest
    /\ req.v.path = <<"/", "docs", "/">>
    /\ HasIndex
    /\ resp.v.status = OK

-----------------------------------------------------------------------------
(* C6 *)

\* The status the claim gives each kind of failure.
ClaimedStatus(e) ==
    IF e.kind = "Io" /\ e.io = "NotFound" THEN NOT_FOUND
    ELSE IF e.kind = "Ext" /\ e.ext.kind = "Io" /\ e.ext.io = "NotFound"
         THEN NOT_FOUND
    ELSE IF e.kind = "EntityNotInRoot" THEN FORBIDDEN
    ELSE IF e.kind \in {"UriNotAbsolute", "UriNotUtf8"} THEN 400
    ELSE INTERNAL_SERVER_ERROR

\* C6: every failure is answered with the status of its kind: not found
\* 404, outside the root 403, a request URI that is not absolute or not
\* UTF-8 400, every other failure 500.
C6_StatusByErrorKind ==
    (Done /\ ~result.ok) => resp.v.status = ClaimedStatus(result.err)

-----------------------------------------------------------------------------
(* C7 *)

\* C7: every request whose method is not GET is answered 405 with the
\* header Allow: GET, and neither file serving nor the extensions run.
C7_MethodNotAllowed ==
    (Done /\ req.v.method # "GET")
    => /\ resp.v.status = METHOD_NOT_ALLOWED
       /\ "allow" \in DOMAIN resp.v.headers
       /\ resp.v.headers["allow"] = <<"GET">>
       /\ ran = <<"unsupported", "transform">>

\* A POST without credentials, on a server that asks for them, got 405.
C7_Witness ==
    /\ Done
    /\ req.v.method = "POST"
    /\ config.auth.some
    /\ ~req.v.authorization.some
    /\ resp.v.status = METHOD_NOT_ALLOWED

-----------------------------------------------------------------------------
(* C8 *)

Spaces(n) == [i \in 1..n |-> " "]

\* The Authorization header is Basic followed by the base64 text of the
\* configured user:pass (scheme in either case, blanks around the text).
CredentialsMatch ==
    /\ req.v.authorization.some
    /\ \E tok \in DOMAIN Base64Table :
         /\ Base64Table[tok] =
              config.auth.v.username \o <<":">> \o config.auth.v.password
         /\ \E scheme \in { <<"B", "a", "s", "i", "c">>,
                            <<"b", "a", "s", "i", "c">> } :
            \E pre \in 1..2 : \E post \in 0..1 :
              req.v.authorization.v =
                scheme \o Spaces(pre) \o <<tok>> \o Spaces(post)

\* Basic realm="...", charset="UTF-8"
IsBasicChallenge(v) ==
    /\ Len(v) = 14
    /\ SubSeq(v, 1, 5) = <<"Basic", " ", "realm", "=", "\"">>
    /\ SubSeq(v, 7, 14) =
         <<"\"", ",", " ", "charset", "=", "\"", "UTF-8", "\"">>

\* C8: with auth configured, a GET request whose Authorization header is
\* absent, malformed or carries other credentials is answered 401 with
\* WWW-Authenticate: Basic realm="...", charset="UTF-8"; a GET request with
\* the right credentials, and every GET request when no auth is configured,
\* proceeds to file serving.
C8_Unauthorized ==
    (Done /\ req.v.method = "GET")
    => IF config.auth.some /\ ~CredentialsMatch
       THEN /\ resp.v.status = UNAUTHORIZED
            /\ "www-authenticate" \in DOMAIN resp.v.headers
            /\ IsBasicChallenge(resp.v.headers["www-authenticate"])
       ELSE ran[1] = "serve_file"

-----------------------------------------------------------------------------
(* C9 *)

\* The same server with a template.html that may fail to render.
InitAnyTemplate ==
    /\ fs = Fs0
    /\ config \in { canonical_root_dir(Fs0, c) : c \in CliConfigs }
    /\ templateOk \in BOOLEAN
    /\ pc = "idle"
    /\ req = None
    /\ openPath = None
    /\ primary = None
    /\ result = None
    /\ resp = None
    /\ nresp = 0
    /\ ran = <<>>
    /\ other = IdleHandler

SpecAnyTemplate == InitAnyTemplate /\ [][Next]_vars

\* C9: serve returns exactly one response for every request and never an
\* error: one response once the request is answered and none before; a
\* result of serve_or_error that is a response is returned as it is, an
\* error becomes an error page, and when the error page cannot be built the
\* response is bare text with the error message.
C9_AlwaysOneResponse ==
    /\ nresp = (IF Done THEN 1 ELSE 0)
    /\ Done =>
         /\ resp.some
         /\ DOMAIN resp.v = {"status", "headers", "body"}
         /\ result.ok => resp.v = result.v
         /\ ~result.ok =>
              IF templateOk
              THEN /\ resp.v.body.kind = "page"
                   /\ resp.v.status \in
                        {FORBIDDEN, NOT_FOUND, INTERNAL_SERVER_ERROR}
              ELSE /\ resp.v.body.kind = "text"
                   /\ resp.v.body.text = <<"unexpected internal error: ",
                                           "failed to render template">>

\* The error page could not be built and the bare text was returned.
C9_Witness ==
    /\ Done
    /\ ~templateOk
    /\ ~result.ok
    /\ resp.v.body.kind = "text"

-----------------------------------------------------------------------------
(* C10 *)

\* C10: with the extensions on and a local path of extension md, the
\* response comes from markdown rendering alone, whatever file serving
\* gave: 200 text/html with the rendered file when it is readable UTF-8,
\* else the error of reading it (404 when missing, 500 otherwise); never a
\* directory listing, never text/plain.
C10_MarkdownTakesOver ==
    (Served /\ MarkdownApplies)
    => LET r == Resolve(fs, LocalPath.v) IN
       IF r.ok /\ fs[r.path].type = "file" /\ fs[r.path].utf8
       THEN /\ resp.v.status = OK
            /\ resp.v.headers["content-type"] = TEXT_HTML
            /\ resp.v.body.kind = "page"
            /\ resp.v.body.body.kind = "markdown"
            /\ resp.v.body.body.of = fs[r.path].bytes
       ELSE IF ~r.ok /\ r.io = "NotFound" THEN resp.v.status = NOT_FOUND
       ELSE resp.v.status = INTERNAL_SERVER_ERROR

\* File serving refused the path as outside the root and the markdown
\* rendering answered 200 all the same.
C10_Witness ==
    /\ Served
    /\ MarkdownApplies
    /\ ~primary.ok
    /\ primary.err.kind = "EntityNotInRoot"
    /\ resp.v.status = OK

-----------------------------------------------------------------------------
(* C11 *)

\* File serving failed with NotFound.
PrimaryNotFound == ~primary.ok /\ primary.err = E_Io("NotFound")

\* The response body is a directory listing.
IsListingBody(body) == body.kind = "page" /\ body.body.kind = "dirlist"

\* The response is 200 text/html and lists the directory at path: first
\* the ".." link, then each immediate child once, in ascending order of
\* the bytes of the names.
IsListingOf(rsp, path) ==
    /\ rsp.status = OK
    /\ rsp.headers["content-type"] = TEXT_HTML
    /\ IsListingBody(rsp.body)
    /\ LET es == rsp.body.body.entries
           kids == Children(fs, Resolve(fs, path).path)
       IN  /\ Len(es) = Cardinality(kids) + 1
           /\ es[1].name = DotDot
           /\ { es[i].name : i \in 2..Len(es) } = kids
           /\ \A i \in 2..Len(es) : \A j \in 2..Len(es) :
                  i < j => BytesLess(NameBytes(es[i].name),
                                     NameBytes(es[j].name))

\* The error page of the failure of file serving.
PrimaryFailureSurfaces == resp.v = transform_error(templateOk, primary)

\* C11 as stated: with the extensions on, a NotFound from file serving
\* for a path that names a directory is answered by the sorted listing of
\* the directory after the ".." link; any other failure of file serving
\* surfaces as it is and no listing is produced.
C11_ListingAlways ==
    (Served /\ config.use_extensions /\ ~primary.ok) =>
        IF PrimaryNotFound /\ LocalPath.ok /\ NamesDir(LocalPath.v)
        THEN IsListingOf(resp.v, LocalPath.v)
        ELSE ~IsListingBody(resp.v.body) /\ PrimaryFailureSurfaces

\* C11: the same, for local paths whose extension is not md (the markdown
\* renderer runs first on those), and with the listing given only when
\* the local path begins with the components of root_dir; when it does
\* not, the listing fails and the response is 500.
C11_Listing ==
    (Served /\ config.use_extensions /\ ~primary.ok /\ ~MarkdownApplies) =>
        IF PrimaryNotFound /\ LocalPath.ok /\ NamesDir(LocalPath.v)
        THEN IF starts_with(LocalPath.v, config.root_dir)
             THEN IsListingOf(resp.v, LocalPath.v)
             ELSE /\ resp.v.status = INTERNAL_SERVER_ERROR
                  /\ ~IsListingBody(resp.v.body)
        ELSE ~IsListingBody(resp.v.body) /\ PrimaryFailureSurfaces

\* A directory with more than two children and no index.html has been
\* listed.
C11_Witness ==
    /\ Served
    /\ config.use_extensions
    /\ PrimaryNotFound
    /\ req.v.path = <<"/", "odd", "/">>
    /\ resp.v.status = OK
    /\ IsListingBody(resp.v.body)
    /\ Len(resp.v.body.body.entries) > 3

-----------------------------------------------------------------------------
(* C12 *)

\* The last segment of the request path.
RequestFileName == Last(Split(req.v.path, "/"))

\* The text after the last '.' of a name, when the name has a '.'.
TextAfterLastDot(name) ==
    LET dot == RFind(name, ".") IN
    IF dot = 0 THEN None ELSE Some(SubSeq(name, dot + 1, Len(name)))

\* The response differs from that of file serving in Content-Type at most.
OnlyContentTypeMayDiffer ==
    /\ resp.v.status = primary.v.status
    /\ resp.v.body = primary.v.body
    /\ DOMAIN resp.v.headers \ {"content-type"} =
           DOMAIN primary.v.headers \ {"content-type"}
    /\ \A h \in DOMAIN primary.v.headers \ {"content-type"} :
           resp.v.headers[h] = primary.v.headers[h]

\* The response is that of file serving with Content-Type text/plain when
\* listed holds, and that of file serving as it is when it does not.
TextPlainIff(listed) ==
    /\ OnlyContentTypeMayDiffer
    /\ IF listed
       THEN /\ "content-type" \in DOMAIN resp.v.headers
            /\ resp.v.headers["content-type"] = TEXT_PLAIN
       ELSE resp.v = primary.v

\* C12 as stated: with the extensions on and a response from file
\* serving, Content-Type is text/plain exactly when the last segment of
\* the request path is in TEXT_FILES or the text after its last '.' is in
\* TEXT_EXTENSIONS, and nothing else of the response changes.
C12_TextPlainByExtension ==
    (Served /\ config.use_extensions /\ primary.ok) =>
        LET e == TextAfterLastDot(RequestFileName) IN
        TextPlainIff(\/ RequestFileName \in TEXT_FILES
                     \/ e.some /\ e.v \in TEXT_EXTENSIONS)

\* C12: the same, for local paths whose extension is not md (those are
\* rendered as markdown), and with the whole last segment taken for the
\* extension when it has no '.'.
C12_TextPlain ==
    (Served /\ config.use_extensions /\ primary.ok /\ ~MarkdownApplies) =>
        LET e == TextAfterLastDot(RequestFileName) IN
        TextPlainIff(\/ RequestFileName \in TEXT_FILES
                     \/ (IF e.some THEN e.v ELSE RequestFileName)
                            \in TEXT_EXTENSIONS)

\* A file whose name is the name of a text extension has been served as
\* text/plain, with the content length file serving gave it.
C12_Witness ==
    /\ Served
    /\ config.use_extensions
    /\ primary.ok
    /\ req.v.path = <<"/", "odd", "/", "sh">>
    /\ primary.v.headers["content-type"] # TEXT_PLAIN
    /\ resp.v.headers["content-type"] = TEXT_PLAIN
    /\ resp.v.headers["content-length"] = primary.v.headers["content-length"]
    /\ resp.v.body.kind = "file"

-----------------------------------------------------------------------------
(* C13 *)

\* Config has no switch for a single-page-app mode; use_extensions, which
\* turns on all of ext::serve, is the only one there could be.
SinglePageAppMode == config.use_extensions

\* The request path names nothing: no file, no directory.
NamesNothing ==
    /\ LocalPath.ok
    /\ Resolve(fs, LocalPath.v) = IoErr("NotFound")

RootIndex == push(config.root_dir, <<"index", ".", "html">>)

-----------------------------------------------------------------------------
(* C14 *)

\* The name has one of the characters the listing percent-encodes.
HasEncodedChar(name) == \E k \in 1..Len(name) : name[k] \in DOMAIN PctEncode

\* The local path a request for the href is resolved to.
HrefTarget(href) == local_path_for_request(href, config.root_dir)

\* C14: in every directory listing, the href of an entry whose name has a
\* space, a double quote, '<', '>', a backtick, '#', '?', '{' or '}'
\* decodes, the way a request path is decoded, to the name it was encoded
\* from, and a request for it is resolved to the listed entry.
C14_HrefRoundTrip ==
    (Done /\ IsListingBody(resp.v.body)) =>
        LET es == resp.v.body.body.entries IN
        \A i \in 2..Len(es) :
            HasEncodedChar(es[i].name) =>
                /\ percent_decode(utf8_percent_encode(es[i].name)) = es[i].name
                /\ HrefTarget(es[i].href).ok
                /\ file_name(HrefTarget(es[i].href).v) = Some(es[i].name)
                /\ Resolve(fs, HrefTarget(es[i].href).v) =
                       Resolve(fs, push(LocalPath.v, es[i].name))

-----------------------------------------------------------------------------
(* C15 *)

\* Each of the two requests that has been answered has the response serve
\* gives that request when nothing else is being served.
AnsweredAsAlone ==
    /\ Done => resp.v = serve(fs, templateOk, config, req.v)
    /\ other.pc = "done" =>
           other.resp.v = serve(fs, templateOk, config, other.req.v)

\* C15: no step of a request changes the Config, the template or the
\* filesystem, and whatever else is being served, and whatever was served
\* before, a request is answered as it is when served alone; so all the
\* answers to one request are the same.
C15_ServedAsAlone ==
    /\ []AnsweredAsAlone
    /\ [][config' = config /\ templateOk' = templateOk /\ fs' = fs]_vars

\* Two requests for the same existing file, in flight at the same time,
\* have both been answered, with the same response.
C15_Witness ==
    /\ Done
    /\ other.pc = "done"
    /\ req.v = other.req.v
    /\ req.v.path = <<"/", "a", ".", "txt">>
    /\ resp.v.status = OK
    /\ resp.v = other.resp.v

-----------------------------------------------------------------------------
(* C16 *)

\* C16: without --allow-escape-root, a file that respond_with_file has
\* opened after its containment check, and that is sent as the response,
\* is inside root_dir, whatever another process did to the filesystem
\* between the check and the open.
C16_OpenedIsInRoot ==
    (/\ Done
     /\ ~config.allow_escape_root
     /\ Len(ran) > 1 /\ ran[2] = "open"
     /\ resp.v.status = OK
     /\ resp.v.body.kind = "file")
        => starts_with(resp.v.body.src, config.root_dir)

-----------------------------------------------------------------------------
(* C17 *)

\* The one response to a GET request without the right credentials: it
\* mentions neither the request nor the filesystem.
Challenge401 ==
    LET page == [kind |-> "page", title |-> [status |-> UNAUTHORIZED],
                 body |-> EmptyBody]
    IN  Response(UNAUTHORIZED,
                 Header("content-type", TEXT_HTML) @@
                 Header("content-length", [len |-> page]) @@
                 Header("www-authenticate", AuthChallenge),
                 page)

\* C17: when credentials are configured and a GET request fails
\* check_auth, no stage that looks at the filesystem runs (no redirect, no
\* path resolution, no open, no extension), and the response is the same
\* 401 for every request path and every state of the filesystem.
C17_ChallengeBeforeFiles ==
    (/\ Done
     /\ req.v.method = "GET"
     /\ config.auth.some
     /\ ~check_auth(config, req.v))
        => /\ ran = <<"unauthorized", "transform">>
           /\ openPath = None
           /\ primary = None
           /\ resp.v = Challenge401

\* A request without credentials, for a path whose target another process
\* has changed or for a path that names nothing, has been answered 401
\* after the filesystem changed.
C17_Witness ==
    /\ Done
    /\ config.auth.some
    /\ ~check_auth(config, req.v)
    /\ req.v.method = "GET"
    /\ req.v.path \in { <<"/", "swap">>, <<"/", "missing">> }
    /\ fs # Fs0
    /\ resp.v.status = UNAUTHORIZED

====
